---- MODULE Spec2Model ----
(***************************************************************************)
(* The two forecast_poc notebooks as one state machine.                    *)
(*                                                                         *)
(*   notebook 1  "Validating and Importing Target Time Series Data"        *)
(*   notebook 3  "Validating and Importing Related Time Series Data"       *)
(*                                                                         *)
(* A run executes the code cells top to bottom; one action per code cell   *)
(* (or per statement of the poll loop).  The data frames are sequences of  *)
(* rows, the external services (Forecast, S3) are the variables the calls  *)
(* write and the statuses the polls read.                                  *)
(*                                                                         *)
(* Time is a shortened calendar that keeps the instants the notebooks      *)
(* name, in their order; HoursFromStart gives the hours between them, and  *)
(* the hours of an axis that lie between two of its instants are rows of   *)
(* the frames without being written out (AxisLength, RowCount, HasYear):   *)
(*    0   2012-10-02 00:00   start of the axis                             *)
(*    1   2017-01-01 00:00   first hour of 2017                            *)
(*    2   2017-12-31 23:00   last hour of 2017                             *)
(*    3   2018-01-01 00:00   first hour of 2018                            *)
(*    4   2018-09-30 00:00   end of the axis                               *)
(*    5   2018-09-30 23:00   last hour of the raw data                     *)
(* The raw file has the columns date_time, temp, traffic_volume (temp      *)
(* stands for the weather columns that move together with it).             *)
(***************************************************************************)
EXTENDS Integers, Sequences, FiniteSets, TLC

VARIABLES
    pc,                         \* the cell the run is about to execute
    original_data,              \* pd.read_csv(...): the raw rows, in file order
    date_range_args,            \* start, end, freq handed to pd.date_range
    target_df,                  \* working frame of notebook 1 (stored for notebook 3)
    full_df,                    \* the empty frame over the canonical axis (its index)
    full_historical_df,         \* the axis joined with the deduplicated raw rows
    cell_out,                   \* the value the last expression cell displayed
    target_time_series_df,      \* 2017 rows, traffic_volume + item_ID
    validation_time_series_df,  \* 2018 rows, traffic_volume + item_ID
    related_time_series_df,     \* notebook 3's frame
    disk,                       \* files written by to_csv: name -> lines
    bucket,                     \* S3 objects: name -> lines
    datasets,                   \* Forecast: datasets created: name -> schema
    dsGroupDatasets,            \* Forecast: datasets attached to the dataset group
    importJobs,                 \* Forecast: import jobs created, with their arguments
    import_job_arn,             \* ds_import_job_arn / rel_ds_import_job_arn
    dataImportStatus,           \* the last status the poll loop read
    calls,                      \* requests issued by the running kernel session, in order
    statusLog,                  \* the statuses the current poll loop was answered, in order
    slept                       \* seconds the kernel session has spent in time.sleep

vars == << pc, original_data, date_range_args, target_df, full_df, full_historical_df, cell_out,
           target_time_series_df, validation_time_series_df,
           related_time_series_df, disk, bucket, datasets, dsGroupDatasets,
           importJobs, import_job_arn, dataImportStatus, calls, statusLog, slept >>

-----------------------------------------------------------------------------
(* Bounds of the model *)

\* most rows in the raw file
MaxRows == 2
\* most status requests one poll loop issues before the service answers a
\* terminal status
MaxPolls == 4

-----------------------------------------------------------------------------
(* Dates and literals of the notebooks *)

AxisStart == 0
Y2017 == 1
Y2017End == 2
Y2018 == 3
AxisEnd == 4
LastRawHour == 5
\* freq='H'
Freq == 1
\* sleep(30)
PollInterval == 30
\* time.sleep(60) of the role cell, in seconds
RoleWait == 60
\* np.nan
NaN == -1
\* full_historical_df.sample(10)
SampleSize == 10
\* related_time_series_df.sample(3)
RelatedSampleSize == 3

\* the hours from 2012-10-02 00:00 to each instant of the calendar
HoursFromStart(t) ==
    CASE t = AxisStart -> 0
      [] t = Y2017 -> 37248
      [] t = Y2017End -> 46007
      [] t = Y2018 -> 46008
      [] t = AxisEnd -> 52536
      [] t = LastRawHour -> 52559

\* the year of each instant of the calendar
YearOf(t) ==
    CASE t = AxisStart -> 2012
      [] t \in { Y2017, Y2017End } -> 2017
      [] t \in { Y2018, AxisEnd, LastRawHour } -> 2018

RawTimes == AxisStart..LastRawHour
Values == {1, 2}
ItemId == "1"

Undefined == "undefined"

RawRow == [date_time : RawTimes, temp : Values, traffic_volume : Values]

RECURSIVE SeqsUpTo(_, _)
SeqsUpTo(S, n) ==
    IF n = 0 THEN { <<>> }
    ELSE LET shorter == SeqsUpTo(S, n - 1)
         IN  shorter \cup { Append(s, x) : s \in { t \in shorter : Len(t) = n - 1 }, x \in S }

RawInputs == SeqsUpTo(RawRow, MaxRows)

-----------------------------------------------------------------------------
(* pandas operations, on frames that are sequences of rows *)

Range(s) == { s[i] : i \in 1..Len(s) }

\* the subsequence of df at the positions in keep, order kept
Take(df, keep) ==
    LET F[i \in 0..Len(df)] ==
            IF i = 0 THEN <<>>
            ELSE IF i \in keep THEN Append(F[i - 1], df[i]) ELSE F[i - 1]
    IN  F[Len(df)]

\* two rows agree on every column; the index (date_time) is no column
SameColumns(r, s) == r.temp = s.temp /\ r.traffic_volume = s.traffic_volume

\* DataFrame.drop_duplicates(keep='first') after set_index('date_time'):
\* a row is dropped when an earlier row has the same values in all columns
DropDuplicates(df) ==
    Take(df, { i \in 1..Len(df) : \A j \in 1..(i - 1) : ~SameColumns(df[j], df[i]) })

\* pd.date_range(start, end, freq): start, start+freq, ... while <= end, freq
\* in hours; of these the instants of the calendar, in increasing order
DateRange(start, end, freq) ==
    IF end < start THEN <<>>
    ELSE SelectSeq([ i \in 1..(end - start + 1) |-> start + (i - 1) ],
                   LAMBDA t : (HoursFromStart(t) - HoursFromStart(start)) % freq = 0)

\* the number of instants of pd.date_range(start, end, freq), those between
\* the instants of the calendar included
AxisLength(start, end, freq) ==
    IF end < start THEN 0
    ELSE (HoursFromStart(end) - HoursFromStart(start)) \div freq + 1

NaNRow(t) == [date_time |-> t, temp |-> NaN, traffic_volume |-> NaN]

RowsAt(df, t) == SelectSeq(df, LAMBDA r : r.date_time = t)

IndexOf(df) == { df[i].date_time : i \in 1..Len(df) }

\* the elements of a finite set of integers in increasing order
RECURSIVE Sorted(_)
Sorted(S) ==
    IF S = {} THEN <<>>
    ELSE LET m == CHOOSE x \in S : \A y \in S : x <= y
         IN  <<m>> \o Sorted(S \ {m})

\* full_df.join(df, how='outer'), full_df an empty frame with index idx:
\* the union of the two indexes, sorted; every row of df under its key (the
\* rows of one key in df's order), an all-NaN row for a key df does not have.
\* With an empty idx the join returns df's index as it is: df's rows in
\* their own order, unsorted.
JoinOuter(idx, df) ==
    LET keys == Sorted(Range(idx) \cup IndexOf(df))
        F[i \in 0..Len(keys)] ==
            IF i = 0 THEN <<>>
            ELSE F[i - 1] \o (IF keys[i] \in IndexOf(df)
                              THEN RowsAt(df, keys[i])
                              ELSE << NaNRow(keys[i]) >>)
    IN  IF idx = <<>> THEN df ELSE F[Len(keys)]

\* df.loc[lo:] on the sorted index
LocFrom(df, lo) == SelectSeq(df, LAMBDA r : r.date_time >= lo)

\* a slice that leaves out its upper end
LocBetweenExclusive(df, lo, hi) ==
    SelectSeq(df, LAMBDA r : r.date_time >= lo /\ r.date_time < hi)

\* df.loc[lo:hi] on the sorted index, both ends included
LocBetween(df, lo, hi) == SelectSeq(df, LAMBDA r : r.date_time >= lo /\ r.date_time <= hi)

FillCell(prev, cur) == IF cur = NaN THEN prev ELSE cur

\* faulty variant of Ffill: a NaN cell takes the cell of the row right above
\* it as that row was before the fill
FfillFromRowAbove(df) ==
    [ i \in 1..Len(df) |->
        IF i = 1 THEN df[1]
        ELSE [date_time |-> df[i].date_time,
              temp |-> FillCell(df[i - 1].temp, df[i].temp),
              traffic_volume |-> FillCell(df[i - 1].traffic_volume,
                                          df[i].traffic_volume)] ]

\* DataFrame.ffill(): column by column, a NaN cell takes the value of the
\* nearest row above it whose cell is not NaN; it stays NaN when there is none
Ffill(df) ==
    LET F[i \in 0..Len(df)] ==
            IF i = 0 THEN <<>>
            ELSE IF i = 1 THEN << df[1] >>
            ELSE Append(F[i - 1],
                        [date_time |-> df[i].date_time,
                         temp |-> FillCell(F[i - 1][i - 1].temp, df[i].temp),
                         traffic_volume |-> FillCell(F[i - 1][i - 1].traffic_volume,
                                                     df[i].traffic_volume)])
    IN  F[Len(df)]

\* df[df.isnull().any(axis=1)]: the rows with a NaN in some column
NullRows(df) == SelectSeq(df, LAMBDA r : r.temp = NaN \/ r.traffic_volume = NaN)

\* df[['traffic_volume']] then df['item_ID'] = "1"
TargetColumns(df) ==
    [ i \in 1..Len(df) |-> [date_time |-> df[i].date_time,
                            traffic_volume |-> df[i].traffic_volume,
                            item_ID |-> ItemId] ]

\* df[['temp', ...]] then df['item_ID'] = "1"
RelatedColumns(df) ==
    [ i \in 1..Len(df) |-> [date_time |-> df[i].date_time,
                            temp |-> df[i].temp,
                            item_ID |-> ItemId] ]

\* to_csv writes a NaN cell as the empty field
CsvField(v) == IF v = NaN THEN "" ELSE ToString(v)

\* the columns of target_time_series_df, in order: [['traffic_volume']],
\* then item_ID added last
TargetColumnNames == << "traffic_volume", "item_ID" >>

\* faulty variant of RelatedColumnNames: two columns selected in the other
\* order
RelatedColumnNamesSwapped ==
    << "temp", "rain_1h", "snow_1h", "weather_description", "clouds_all", "item_ID" >>

\* the columns of related_time_series_df, in order: [['temp', 'rain_1h',
\* 'snow_1h', 'clouds_all', 'weather_description']], then item_ID added last
RelatedColumnNames ==
    << "temp", "rain_1h", "snow_1h", "clouds_all", "weather_description", "item_ID" >>

\* the field to_csv writes for a column of a row; every weather column
\* carries the cell of temp, which stands for them
Cell(row, col) ==
    CASE col = "item_ID" -> row.item_ID
      [] col = "traffic_volume" -> CsvField(row.traffic_volume)
      [] OTHER -> CsvField(row.temp)

\* df.to_csv(path, header=header): a line of column names when header is set,
\* then one line per row: the index, then the columns in the frame's order
ToCsv(df, columns, header) ==
    (IF header THEN << << "" >> \o columns >> ELSE <<>>)
    \o [ i \in 1..Len(df) |->
            << df[i].date_time >> \o [ k \in 1..Len(columns) |-> Cell(df[i], columns[k]) ] ]

\* to_csv(path, header=False)
TargetCsv(df) == ToCsv(df, TargetColumnNames, FALSE)

RelatedCsv(df) == ToCsv(df, RelatedColumnNames, FALSE)

\* a mapping with one entry written (a file on disk, an object in the bucket)
Put(m, name, content) ==
    [ n \in DOMAIN m \cup {name} |-> IF n = name THEN content ELSE m[n] ]

NoFiles == [ n \in {} |-> <<>> ]

-----------------------------------------------------------------------------
(* Names the notebooks give *)

TargetFileName == "target_time_series.csv"
ValidationFileName == "validation_time_series.csv"
RelatedFileName == "related_time_series.csv"
TargetDataset == "target_dataset"
RelatedDataset == "related_dataset"
TargetJobName == "DSIMPORT_JOB_TARGET_POC"
RelatedJobName == "DSIMPORT_JOB_RELATEDPOC_uuid"

\* TIMESTAMP_FORMAT = "yyyy-MM-dd hh:mm:ss" (stored for notebook 3)
TIMESTAMP_FORMAT == "yyyy-MM-dd hh:mm:ss"

\* the arguments of create_dataset_import_job: DatasetImportJobName,
\* DatasetArn, DataSource.S3Config.Path, TimestampFormat
ImportJob(name, dataset, path) ==
    [name |-> name, dataset |-> dataset, path |-> path, format |-> TIMESTAMP_FORMAT]

TargetJob == ImportJob(TargetJobName, TargetDataset, TargetFileName)
RelatedJob == ImportJob(RelatedJobName, RelatedDataset, RelatedFileName)

\* schema = {"Attributes": [...]} of notebook 1
schema ==
    << [AttributeName |-> "timestamp", AttributeType |-> "timestamp"],
       [AttributeName |-> "target_value", AttributeType |-> "float"],
       [AttributeName |-> "item_id", AttributeType |-> "string"] >>

\* related_schema = {"Attributes": [...]} of notebook 3
related_schema ==
    << [AttributeName |-> "timestamp", AttributeType |-> "timestamp"],
       [AttributeName |-> "temperature", AttributeType |-> "float"],
       [AttributeName |-> "rain_1h", AttributeType |-> "float"],
       [AttributeName |-> "snow_1h", AttributeType |-> "float"],
       [AttributeName |-> "clouds_all", AttributeType |-> "float"],
       [AttributeName |-> "weather", AttributeType |-> "string"],
       [AttributeName |-> "item_id", AttributeType |-> "string"] >>

NoDatasets == [ n \in {} |-> <<>> ]

\* the statuses of an import job the service answers
Statuses == { "CREATE_PENDING", "CREATE_IN_PROGRESS", "ACTIVE", "CREATE_FAILED" }

\* faulty variant of KeepPolling: a loop that stops on ACTIVE alone
KeepPollingUnlessActive(status) == status # "ACTIVE"

\* dataImportStatus != 'ACTIVE' and dataImportStatus != 'CREATE_FAILED'
KeepPolling(status) == status # "ACTIVE" /\ status # "CREATE_FAILED"

-----------------------------------------------------------------------------
(* The state after pd.read_csv *)

\* nothing but the raw data and the literals is defined yet
InitRest ==
    /\ pc = "nb1_copy"
    /\ target_df = <<>>
    /\ full_df = <<>>
    /\ full_historical_df = <<>>
    /\ cell_out = <<>>
    /\ target_time_series_df = <<>>
    /\ validation_time_series_df = <<>>
    /\ related_time_series_df = <<>>
    /\ disk = NoFiles
    /\ bucket = NoFiles
    /\ datasets = NoDatasets
    /\ dsGroupDatasets = {}
    /\ importJobs = {}
    /\ import_job_arn = Undefined
    /\ dataImportStatus = Undefined
    /\ calls = <<>>
    /\ statusLog = <<>>
    /\ slept = 0

\* start='10/02/2012', end='09/30/2018', freq='H'
NotebookRange == [start |-> AxisStart, end |-> AxisEnd, freq |-> Freq]

Init ==
    /\ original_data \in RawInputs
    /\ date_range_args = NotebookRange
    /\ InitRest

dataVars == << original_data, date_range_args, target_df, full_df, full_historical_df, cell_out,
               target_time_series_df, validation_time_series_df,
               related_time_series_df >>
fileVars == << disk, bucket >>
serviceVars == << datasets, dsGroupDatasets, importJobs >>
pollVars == << import_job_arn, dataImportStatus, statusLog, slept >>

-----------------------------------------------------------------------------
(* Notebook 1: preparing the data *)

\* target_df = original_data.copy()
\* target_df.plot()
\* print("Start Date: ", min(target_df['date_time'])), print("End Date: ", max(...))
\* On a frame without rows plot() raises (no numeric data to plot), as would
\* min() of the empty column: target_df is bound, the exception ends the cell
\* and the run stops there.
CopyRaw ==
    /\ pc = "nb1_copy"
    /\ target_df' = original_data
    /\ pc' = IF original_data = <<>> THEN "nb1_copy_failed" ELSE "nb1_dedup"
    /\ UNCHANGED << original_data, date_range_args, full_df, full_historical_df, cell_out,
                    target_time_series_df, validation_time_series_df,
                    related_time_series_df, fileVars, serviceVars, pollVars, calls >>

\* the dedup cell working on the raw frame itself instead of a copy
SetIndexDropDuplicatesInPlace ==
    /\ pc = "nb1_dedup"
    /\ target_df' = DropDuplicates(target_df)
    /\ original_data' = DropDuplicates(original_data)
    /\ pc' = "nb1_axis"
    /\ UNCHANGED << date_range_args, full_df, full_historical_df, cell_out,
                    target_time_series_df, validation_time_series_df,
                    related_time_series_df, fileVars, serviceVars, pollVars, calls >>

\* target_df.set_index('date_time', inplace=True)
\* target_df = target_df.drop_duplicates(keep='first')
SetIndexDropDuplicates ==
    /\ pc = "nb1_dedup"
    /\ target_df' = DropDuplicates(target_df)
    /\ pc' = "nb1_axis"
    /\ UNCHANGED << original_data, date_range_args, full_df, full_historical_df, cell_out,
                    target_time_series_df, validation_time_series_df,
                    related_time_series_df, fileVars, serviceVars, pollVars, calls >>

\* idx = pd.date_range(start='10/02/2012', end='09/30/2018', freq='H')
\* full_df = pd.DataFrame(index=idx)
BuildAxis ==
    /\ pc = "nb1_axis"
    /\ full_df' = DateRange(date_range_args.start, date_range_args.end,
                            date_range_args.freq)
    /\ pc' = "nb1_join"
    /\ UNCHANGED << original_data, date_range_args, target_df, full_historical_df, cell_out,
                    target_time_series_df, validation_time_series_df,
                    related_time_series_df, fileVars, serviceVars, pollVars, calls >>

\* full_historical_df = full_df.join(target_df, how='outer')
JoinAxis ==
    /\ pc = "nb1_join"
    /\ full_historical_df' = JoinOuter(full_df, target_df)
    /\ pc' = "nb1_sample"
    /\ UNCHANGED << original_data, date_range_args, target_df, full_df, cell_out,
                    target_time_series_df, validation_time_series_df,
                    related_time_series_df, fileVars, serviceVars, pollVars, calls >>

\* the rows of full_historical_df in the code's frame: the rows of the model
\* and the instants of the axis between the instants of the calendar
RowCount ==
    Len(full_historical_df)
        + AxisLength(date_range_args.start, date_range_args.end, date_range_args.freq)
        - Len(full_df)

\* full_historical_df.sample(10): raises on a frame of fewer than 10 rows
\* (cannot take a larger sample than population) and the run stops there
SampleHistory ==
    /\ pc = "nb1_sample"
    /\ pc' = IF RowCount < SampleSize THEN "nb1_sample_failed" ELSE "nb1_plot"
    /\ UNCHANGED << dataVars, fileVars, serviceVars, pollVars, calls >>

\* full_historical_df.plot(): raises on a frame without rows
PlotHistory ==
    /\ pc = "nb1_plot"
    /\ pc' = IF full_historical_df = <<>> THEN "nb1_plot_failed" ELSE "nb1_plot_2013"
    /\ UNCHANGED << dataVars, fileVars, serviceVars, pollVars, calls >>

\* full_historical_df.loc['YYYY-01-01':'YYYY-12-31'] has a row: a row of the
\* model in that year, or instants of the axis in it
HasYear(year) ==
    \/ \E i \in 1..Len(full_historical_df) : YearOf(full_historical_df[i].date_time) = year
    \/ /\ full_df # <<>>
       /\ YearOf(full_df[1]) <= year
       /\ year <= YearOf(full_df[Len(full_df)])

\* df_YYYY = full_historical_df.loc['YYYY-01-01':'YYYY-12-31']
\* print (df_YYYY.index.min()); print (df_YYYY.index.max()); df_YYYY.plot():
\* plot() raises on a year without rows (no numeric data to plot) and the
\* run stops there
PlotYear(at, year, next) ==
    /\ pc = at
    /\ pc' = IF HasYear(year) THEN next ELSE "nb1_plot_failed"
    /\ UNCHANGED << dataVars, fileVars, serviceVars, pollVars, calls >>

PlotYear2013 == PlotYear("nb1_plot_2013", 2013, "nb1_plot_2014")
PlotYear2014 == PlotYear("nb1_plot_2014", 2014, "nb1_plot_2015")
PlotYear2015 == PlotYear("nb1_plot_2015", 2015, "nb1_plot_2016")
PlotYear2016 == PlotYear("nb1_plot_2016", 2016, "nb1_plot_2017")
PlotYear2017 == PlotYear("nb1_plot_2017", 2017, "nb1_plot_2018")
PlotYear2018 == PlotYear("nb1_plot_2018", 2018, "nb1_slice")

\* target_df = full_historical_df.copy(); target_df = target_df.loc['2017-01-01':]
SliceFrom2017 ==
    /\ pc = "nb1_slice"
    /\ target_df' = LocFrom(full_historical_df, Y2017)
    /\ pc' = "nb1_ffill"
    /\ UNCHANGED << original_data, date_range_args, full_df, full_historical_df, cell_out,
                    target_time_series_df, validation_time_series_df,
                    related_time_series_df, fileVars, serviceVars, pollVars, calls >>

\* target_df.ffill(): the filled frame is the cell's displayed value; the
\* statement assigns it to nothing and target_df keeps its NaN cells
FfillCell ==
    /\ pc = "nb1_ffill"
    /\ cell_out' = Ffill(target_df)
    /\ pc' = "nb1_target_series"
    /\ UNCHANGED << original_data, date_range_args, target_df, full_df, full_historical_df,
                    target_time_series_df, validation_time_series_df,
                    related_time_series_df, fileVars, serviceVars, pollVars, calls >>

\* target_time_series_df = target_df.copy().loc['2017-01-01':'2017-12-31']
\* target_time_series_df = target_time_series_df[['traffic_volume']]; item_ID = "1"
BuildTargetSeries ==
    /\ pc = "nb1_target_series"
    /\ target_time_series_df' = LocBetween(target_df, Y2017, Y2017End)
    /\ pc' = "nb1_target_columns"
    /\ UNCHANGED << original_data, date_range_args, target_df, full_df, full_historical_df, cell_out,
                    validation_time_series_df, related_time_series_df,
                    fileVars, serviceVars, pollVars, calls >>

\* target_time_series_df = target_time_series_df[['traffic_volume']]
\* target_time_series_df['item_ID'] = "1"
SelectTargetColumns ==
    /\ pc = "nb1_target_columns"
    /\ target_time_series_df' = TargetColumns(target_time_series_df)
    /\ pc' = "nb1_target_file"
    /\ UNCHANGED << original_data, date_range_args, target_df, full_df, full_historical_df, cell_out,
                    validation_time_series_df, related_time_series_df,
                    fileVars, serviceVars, pollVars, calls >>

\* target_time_series_df.to_csv(target_time_series_path, header=False)
WriteTargetFile ==
    /\ pc = "nb1_target_file"
    /\ disk' = Put(disk, TargetFileName, TargetCsv(target_time_series_df))
    /\ pc' = "nb1_validation_series"
    /\ UNCHANGED << dataVars, bucket, serviceVars, pollVars, calls >>

\* validation_time_series_df = target_df.copy()
\* validation_time_series_df = validation_time_series_df.loc['2018-01-01':]
BuildValidationSeries ==
    /\ pc = "nb1_validation_series"
    /\ validation_time_series_df' = LocFrom(target_df, Y2018)
    /\ pc' = "nb1_validation_columns"
    /\ UNCHANGED << original_data, date_range_args, target_df, full_df, full_historical_df, cell_out,
                    target_time_series_df, related_time_series_df,
                    fileVars, serviceVars, pollVars, calls >>

\* validation_time_series_df = validation_time_series_df[['traffic_volume']]
\* validation_time_series_df['item_ID'] = "1"
SelectValidationColumns ==
    /\ pc = "nb1_validation_columns"
    /\ validation_time_series_df' = TargetColumns(validation_time_series_df)
    /\ pc' = "nb1_validation_file"
    /\ UNCHANGED << original_data, date_range_args, target_df, full_df, full_historical_df, cell_out,
                    target_time_series_df, related_time_series_df,
                    fileVars, serviceVars, pollVars, calls >>

\* validation_time_series_df.to_csv(validation_time_series_path, header=False)
WriteValidationFile ==
    /\ pc = "nb1_validation_file"
    /\ disk' = Put(disk, ValidationFileName, TargetCsv(validation_time_series_df))
    /\ pc' = "nb1_create_dataset_group"
    /\ UNCHANGED << dataVars, bucket, serviceVars, pollVars, calls >>

-----------------------------------------------------------------------------
(* Notebook 1: the Forecast and S3 calls *)

Call(name) == calls' = Append(calls, name)

\* the requests of one cell, in the order the cell issues them
Calls(names) == calls' = calls \o names

\* forecast.create_dataset_group(DatasetGroupName=..., Domain="CUSTOM")
CreateDatasetGroup ==
    /\ pc = "nb1_create_dataset_group"
    /\ Call("create_dataset_group")
    /\ pc' = "nb1_describe_dataset_group"
    /\ UNCHANGED << dataVars, fileVars, serviceVars, pollVars >>

\* forecast.describe_dataset_group(DatasetGroupArn=datasetGroupArn)
DescribeDatasetGroup ==
    /\ pc = "nb1_describe_dataset_group"
    /\ Call("describe_dataset_group")
    /\ pc' = "nb1_create_dataset"
    /\ UNCHANGED << dataVars, fileVars, serviceVars, pollVars >>

\* response = forecast.create_dataset(DatasetType='TARGET_TIME_SERIES', ...)
CreateDataset ==
    /\ pc = "nb1_create_dataset"
    /\ Call("create_dataset")
    /\ datasets' = Put(datasets, TargetDataset, schema)
    /\ pc' = "nb1_describe_dataset"
    /\ UNCHANGED << dataVars, fileVars, dsGroupDatasets, importJobs, pollVars >>

\* target_datasetArn = response['DatasetArn']; forecast.describe_dataset(...)
DescribeDataset ==
    /\ pc = "nb1_describe_dataset"
    /\ Call("describe_dataset")
    /\ pc' = "nb1_attach_dataset"
    /\ UNCHANGED << dataVars, fileVars, serviceVars, pollVars >>

\* forecast.update_dataset_group(DatasetGroupArn=..., DatasetArns=[target_datasetArn])
AttachDataset ==
    /\ pc = "nb1_attach_dataset"
    /\ Call("update_dataset_group")
    /\ dsGroupDatasets' = {TargetDataset}
    /\ pc' = "nb1_create_role"
    /\ UNCHANGED << dataVars, fileVars, datasets, importJobs, pollVars >>

\* iam.create_role(...); iam.attach_role_policy(...) for
\* AmazonForecastFullAccess and for AmazonS3FullAccess: the three requests of
\* the role cell, sent before the cell waits
CreateRole ==
    /\ pc = "nb1_create_role"
    /\ Calls(<< "create_role", "attach_role_policy", "attach_role_policy" >>)
    /\ pc' = "nb1_role_wait"
    /\ UNCHANGED << dataVars, fileVars, serviceVars, pollVars >>

\* time.sleep(60); role_arn = create_role_response["Role"]["Arn"]: the rest
\* of the role cell
WaitForRole ==
    /\ pc = "nb1_role_wait"
    /\ slept' = slept + RoleWait
    /\ pc' = "nb1_create_bucket"
    /\ UNCHANGED << dataVars, fileVars, serviceVars, import_job_arn,
                    dataImportStatus, statusLog, calls >>

\* account_id = boto3.client('sts').get_caller_identity().get('Account')
\* s3.create_bucket(Bucket=bucket_name, ...), with the LocationConstraint
\* outside us-east-1 and without it there: the same two requests
CreateBucket ==
    /\ pc = "nb1_create_bucket"
    /\ Calls(<< "get_caller_identity", "create_bucket" >>)
    /\ pc' = "nb1_upload"
    /\ UNCHANGED << dataVars, fileVars, serviceVars, pollVars >>

\* ...Object(target_time_series_filename).upload_file(target_time_series_path)
UploadTargetFile ==
    /\ pc = "nb1_upload"
    /\ Call("upload_file")
    /\ bucket' = Put(bucket, TargetFileName, disk[TargetFileName])
    /\ pc' = "nb1_create_import_job"
    /\ UNCHANGED << dataVars, disk, serviceVars, pollVars >>

\* forecast.create_dataset_import_job(...) returns the job: the job exists in
\* the service and the cell binds the response
SubmitImportJob(at, job, next) ==
    /\ pc = at
    /\ Call("create_dataset_import_job")
    /\ importJobs' = importJobs \cup {job}
    /\ pc' = next
    /\ UNCHANGED << dataVars, fileVars, datasets, dsGroupDatasets, pollVars >>

\* faulty variant of SubmitImportJobError: the exception is swallowed and the
\* next cell runs
SubmitImportJobErrorSwallowed(at, aborted) ==
    /\ pc = at
    /\ Call("create_dataset_import_job")
    /\ pc' = IF at = "nb1_create_import_job" THEN "nb1_job_arn" ELSE "nb3_job_arn"
    /\ UNCHANGED << dataVars, fileVars, serviceVars, pollVars >>

\* forecast.create_dataset_import_job(...) raises: the request was issued, no
\* job exists, the exception ends the cell and the run stops there
SubmitImportJobError(at, aborted) ==
    /\ pc = at
    /\ Call("create_dataset_import_job")
    /\ pc' = aborted
    /\ UNCHANGED << dataVars, fileVars, serviceVars, pollVars >>

\* ds_import_job_arn = ds_import_job_response['DatasetImportJobArn']
ReadJobArn(at, name, next) ==
    /\ pc = at
    /\ import_job_arn' = name
    /\ pc' = next
    /\ UNCHANGED << dataVars, fileVars, serviceVars, dataImportStatus, statusLog,
                    slept, calls >>

\* faulty variant of PollRequest: the submission repeated inside the loop,
\* each iteration creating a job under a new name before it asks
PollRequestResubmitting(at, got) ==
    /\ pc = at
    /\ Len(statusLog) < MaxPolls
    /\ \E status \in Statuses :
          /\ KeepPolling(status) => Len(statusLog) + 1 < MaxPolls
          /\ dataImportStatus' = status
          /\ statusLog' = Append(statusLog, status)
    /\ calls' = calls \o << "create_dataset_import_job", "describe_dataset_import_job" >>
    /\ importJobs' = importJobs \cup
           { IF at = "nb1_poll"
             THEN ImportJob("DSIMPORT_JOB_TARGET_POC_again", TargetDataset, TargetFileName)
             ELSE ImportJob("DSIMPORT_JOB_RELATEDPOC_again", RelatedDataset, RelatedFileName) }
    /\ import_job_arn' = IF at = "nb1_poll" THEN "DSIMPORT_JOB_TARGET_POC_again"
                                             ELSE "DSIMPORT_JOB_RELATEDPOC_again"
    /\ pc' = got
    /\ UNCHANGED << dataVars, fileVars, datasets, dsGroupDatasets, slept >>

\* while True:
\*     dataImportStatus = forecast.describe_dataset_import_job(
\*         DatasetImportJobArn=...)['Status']
\* The service answers any of its statuses; it answers a terminal one at the
\* latest to the MaxPolls-th request of the loop.
PollRequest(at, got) ==
    /\ pc = at
    /\ Len(statusLog) < MaxPolls
    /\ \E status \in Statuses :
          /\ KeepPolling(status) => Len(statusLog) + 1 < MaxPolls
          /\ dataImportStatus' = status
          /\ statusLog' = Append(statusLog, status)
    /\ Call("describe_dataset_import_job")
    /\ pc' = got
    /\ UNCHANGED << dataVars, fileVars, serviceVars, import_job_arn, slept >>

\* faulty variant of PollSleep: a loop that gives up after three attempts
PollSleepWithAttemptLimit(got, at) ==
    /\ pc = got
    /\ KeepPolling(dataImportStatus)
    /\ Len(statusLog) < 3
    /\ slept' = slept + PollInterval
    /\ pc' = at
    /\ UNCHANGED << dataVars, fileVars, serviceVars, import_job_arn,
                    dataImportStatus, statusLog, calls >>

\*     if dataImportStatus != 'ACTIVE' and dataImportStatus != 'CREATE_FAILED':
\*         sleep(30)
PollSleep(got, at) ==
    /\ pc = got
    /\ KeepPolling(dataImportStatus)
    /\ slept' = slept + PollInterval
    /\ pc' = at
    /\ UNCHANGED << dataVars, fileVars, serviceVars, import_job_arn,
                    dataImportStatus, statusLog, calls >>

\* faulty variant of PollBreak: a loop that sleeps once more before it leaves
PollBreakSleeping(got, next) ==
    /\ pc = got
    /\ ~KeepPolling(dataImportStatus)
    /\ slept' = slept + PollInterval
    /\ pc' = next
    /\ UNCHANGED << dataVars, fileVars, serviceVars, import_job_arn,
                    dataImportStatus, statusLog, calls >>

\* faulty variant of PollBreak: a loop that is left on ACTIVE only
PollBreakOnActiveOnly(got, next) ==
    /\ pc = got
    /\ dataImportStatus = "ACTIVE"
    /\ pc' = next
    /\ UNCHANGED << dataVars, fileVars, serviceVars, pollVars, calls >>

\*     else:
\*         break
PollBreak(got, next) ==
    /\ pc = got
    /\ ~KeepPolling(dataImportStatus)
    /\ pc' = next
    /\ UNCHANGED << dataVars, fileVars, serviceVars, pollVars, calls >>

\* forecast.describe_dataset_import_job(DatasetImportJobArn=...): the cell
\* displays the job with its field statistics, whatever its status
DescribeImportJob(at, next) ==
    /\ pc = at
    /\ Call("describe_dataset_import_job")
    /\ pc' = next
    /\ UNCHANGED << dataVars, fileVars, serviceVars, pollVars >>

CreateTargetImportJob ==
    SubmitImportJob("nb1_create_import_job", TargetJob, "nb1_job_arn")
CreateTargetImportJobError ==
    SubmitImportJobError("nb1_create_import_job", "nb1_aborted")
ReadTargetJobArn == ReadJobArn("nb1_job_arn", TargetJobName, "nb1_poll")
PollTargetRequest == PollRequest("nb1_poll", "nb1_polled")
PollTargetSleep == PollSleep("nb1_polled", "nb1_poll")
PollTargetBreak == PollBreak("nb1_polled", "nb1_evaluate")
DescribeTargetImportJob == DescribeImportJob("nb1_evaluate", "nb1_store")

\* %store full_historical_df ... : the run of notebook 1 ends
StoreVariables ==
    /\ pc = "nb1_store"
    /\ pc' = "nb3_restore"
    /\ UNCHANGED << dataVars, fileVars, serviceVars, pollVars, calls >>

-----------------------------------------------------------------------------
(* Notebook 3: the related time series *)

\* %store -r in a fresh kernel: the stored frames and names are back, nothing
\* else of notebook 1's session is defined
RestoreStore ==
    /\ pc = "nb3_restore"
    /\ original_data' = <<>>
    /\ cell_out' = <<>>
    /\ import_job_arn' = Undefined
    /\ dataImportStatus' = Undefined
    /\ calls' = <<>>
    /\ statusLog' = <<>>
    /\ slept' = 0
    /\ pc' = "nb3_related"
    /\ UNCHANGED << date_range_args, target_df, full_df, full_historical_df,
                    target_time_series_df, validation_time_series_df,
                    related_time_series_df, fileVars, serviceVars >>

\* faulty variant of BuildRelated: the related series cut from 2018-01-01
BuildRelatedFrom2018 ==
    /\ pc = "nb3_related"
    /\ related_time_series_df' = LocFrom(Ffill(JoinOuter(full_df, target_df)), Y2018)
    /\ pc' = "nb3_null_check"
    /\ UNCHANGED << original_data, date_range_args, target_df, full_df, full_historical_df, cell_out,
                    target_time_series_df, validation_time_series_df,
                    fileVars, serviceVars, pollVars, calls >>

\* related_time_series_df = target_df.copy()
\* related_time_series_df.dropna()                      (result dropped)
\* related_time_series_df = full_df.join(related_time_series_df, how='outer')
\* related_time_series_df[cols] = related_time_series_df[cols].replace('', np.nan).ffill()
\* related_time_series_df = related_time_series_df.loc['2017-01-01':]
\* (the columns are numeric: no cell holds '')
BuildRelated ==
    /\ pc = "nb3_related"
    /\ related_time_series_df' = LocFrom(Ffill(JoinOuter(full_df, target_df)), Y2017)
    /\ pc' = "nb3_null_check"
    /\ UNCHANGED << original_data, date_range_args, target_df, full_df, full_historical_df, cell_out,
                    target_time_series_df, validation_time_series_df,
                    fileVars, serviceVars, pollVars, calls >>

\* related_time_series_df[related_time_series_df.isnull().any(axis=1)]:
\* the rows with a NaN are displayed; the run goes on whatever they are
NullCheck ==
    /\ pc = "nb3_null_check"
    /\ cell_out' = NullRows(related_time_series_df)
    /\ pc' = "nb3_sample"
    /\ UNCHANGED << original_data, date_range_args, target_df, full_df, full_historical_df,
                    target_time_series_df, validation_time_series_df,
                    related_time_series_df, fileVars, serviceVars, pollVars, calls >>

\* the instants of the axis start, start + freq, ... <= end that are at or
\* after lo, counted in hours
AxisLengthFrom(start, end, freq, lo) ==
    LET n == AxisLength(start, end, freq)
        before == IF HoursFromStart(lo) <= HoursFromStart(start)
                  THEN 0
                  ELSE (HoursFromStart(lo) - HoursFromStart(start) + freq - 1) \div freq
    IN  IF before >= n THEN 0 ELSE n - before

\* the rows of related_time_series_df in the code's frame: the rows of the
\* model and the instants of the axis from 2017-01-01 on that lie between
\* the instants of the calendar
RelatedRowCount ==
    Len(related_time_series_df)
        + AxisLengthFrom(date_range_args.start, date_range_args.end,
                         date_range_args.freq, Y2017)
        - Cardinality({ i \in 1..Len(full_df) : full_df[i] >= Y2017 })

\* related_time_series_df.sample(3): raises on a frame of fewer than 3 rows
\* and the run stops there
SampleRelated ==
    /\ pc = "nb3_sample"
    /\ pc' = IF RelatedRowCount < RelatedSampleSize
             THEN "nb3_sample_failed"
             ELSE "nb3_related_columns"
    /\ UNCHANGED << dataVars, fileVars, serviceVars, pollVars, calls >>

\* related_time_series_df = related_time_series_df[['temp', ...]]; item_ID = "1"
SelectRelatedColumns ==
    /\ pc = "nb3_related_columns"
    /\ related_time_series_df' = RelatedColumns(related_time_series_df)
    /\ pc' = "nb3_related_file"
    /\ UNCHANGED << original_data, date_range_args, target_df, full_df, full_historical_df, cell_out,
                    target_time_series_df, validation_time_series_df,
                    fileVars, serviceVars, pollVars, calls >>

\* related_time_series_df.to_csv(related_time_series_path, header=False)
WriteRelatedFile ==
    /\ pc = "nb3_related_file"
    /\ disk' = Put(disk, RelatedFileName, RelatedCsv(related_time_series_df))
    /\ pc' = "nb3_upload"
    /\ UNCHANGED << dataVars, bucket, serviceVars, pollVars, calls >>

\* ...Object(related_time_series_filename).upload_file(related_time_series_path)
UploadRelatedFile ==
    /\ pc = "nb3_upload"
    /\ Call("upload_file")
    /\ bucket' = Put(bucket, RelatedFileName, disk[RelatedFileName])
    /\ pc' = "nb3_create_dataset"
    /\ UNCHANGED << dataVars, disk, serviceVars, pollVars >>

\* response = forecast.create_dataset(DatasetType='RELATED_TIME_SERIES', ...)
CreateRelatedDataset ==
    /\ pc = "nb3_create_dataset"
    /\ Call("create_dataset")
    /\ datasets' = Put(datasets, RelatedDataset, related_schema)
    /\ pc' = "nb3_describe_dataset"
    /\ UNCHANGED << dataVars, fileVars, dsGroupDatasets, importJobs, pollVars >>

\* related_datasetArn = response['DatasetArn']; forecast.describe_dataset(...)
DescribeRelatedDataset ==
    /\ pc = "nb3_describe_dataset"
    /\ Call("describe_dataset")
    /\ pc' = "nb3_create_import_job"
    /\ UNCHANGED << dataVars, fileVars, serviceVars, pollVars >>

CreateRelatedImportJob ==
    SubmitImportJob("nb3_create_import_job", RelatedJob, "nb3_job_arn")
CreateRelatedImportJobError ==
    SubmitImportJobError("nb3_create_import_job", "nb3_aborted")
ReadRelatedJobArn == ReadJobArn("nb3_job_arn", RelatedJobName, "nb3_poll")
PollRelatedRequest == PollRequest("nb3_poll", "nb3_polled")
PollRelatedSleep == PollSleep("nb3_polled", "nb3_poll")
PollRelatedBreak == PollBreak("nb3_polled", "nb3_sample_again")

\* related_time_series_df.info(), then related_time_series_df.sample(3) on
\* the frame of the selected columns: raises on fewer than 3 rows
SampleRelatedAgain ==
    /\ pc = "nb3_sample_again"
    /\ pc' = IF RelatedRowCount < RelatedSampleSize
             THEN "nb3_sample_again_failed"
             ELSE "nb3_evaluate"
    /\ UNCHANGED << dataVars, fileVars, serviceVars, pollVars, calls >>

DescribeRelatedImportJob == DescribeImportJob("nb3_evaluate", "nb3_update_group")

\* faulty variant of UpdateDatasetGroup: DatasetArns=[related_datasetArn], the
\* list replacing the one the group held
UpdateDatasetGroupRelatedOnly ==
    /\ pc = "nb3_update_group"
    /\ Call("update_dataset_group")
    /\ dsGroupDatasets' = {RelatedDataset}
    /\ pc' = "nb3_done"
    /\ UNCHANGED << dataVars, fileVars, datasets, importJobs, pollVars >>

\* forecast.update_dataset_group(DatasetGroupArn=...,
\*     DatasetArns=[target_datasetArn, related_datasetArn])
UpdateDatasetGroup ==
    /\ pc = "nb3_update_group"
    /\ Call("update_dataset_group")
    /\ dsGroupDatasets' = {TargetDataset, RelatedDataset}
    /\ pc' = "nb3_done"
    /\ UNCHANGED << dataVars, fileVars, datasets, importJobs, pollVars >>

Next ==
    \/ CopyRaw
    \/ SetIndexDropDuplicates
    \/ BuildAxis
    \/ JoinAxis
    \/ SampleHistory
    \/ PlotHistory
    \/ PlotYear2013
    \/ PlotYear2014
    \/ PlotYear2015
    \/ PlotYear2016
    \/ PlotYear2017
    \/ PlotYear2018
    \/ SliceFrom2017
    \/ FfillCell
    \/ BuildTargetSeries
    \/ SelectTargetColumns
    \/ WriteTargetFile
    \/ BuildValidationSeries
    \/ SelectValidationColumns
    \/ WriteValidationFile
    \/ CreateDatasetGroup
    \/ DescribeDatasetGroup
    \/ CreateDataset
    \/ DescribeDataset
    \/ AttachDataset
    \/ CreateRole
    \/ WaitForRole
    \/ CreateBucket
    \/ UploadTargetFile
    \/ CreateTargetImportJob
    \/ CreateTargetImportJobError
    \/ ReadTargetJobArn
    \/ PollTargetRequest
    \/ PollTargetSleep
    \/ PollTargetBreak
    \/ DescribeTargetImportJob
    \/ StoreVariables
    \/ RestoreStore
    \/ BuildRelated
    \/ NullCheck
    \/ SampleRelated
    \/ SelectRelatedColumns
    \/ WriteRelatedFile
    \/ UploadRelatedFile
    \/ CreateRelatedDataset
    \/ DescribeRelatedDataset
    \/ CreateRelatedImportJob
    \/ CreateRelatedImportJobError
    \/ ReadRelatedJobArn
    \/ PollRelatedRequest
    \/ PollRelatedSleep
    \/ PollRelatedBreak
    \/ SampleRelatedAgain
    \/ DescribeRelatedImportJob
    \/ UpdateDatasetGroup

Spec == Init /\ [][Next]_vars

-----------------------------------------------------------------------------
(* The same run against a service that promises no terminal status *)

\* The request of the poll loop, answered any status at every request: the
\* job may stay unfinished for as long as the loop is watched (MaxPolls
\* requests).
PollRequestAnyStatus(at, got) ==
    /\ pc = at
    /\ Len(statusLog) < MaxPolls
    /\ \E status \in Statuses :
          /\ dataImportStatus' = status
          /\ statusLog' = Append(statusLog, status)
    /\ Call("describe_dataset_import_job")
    /\ pc' = got
    /\ UNCHANGED << dataVars, fileVars, serviceVars, import_job_arn, slept >>

PollTargetRequestAnyStatus == PollRequestAnyStatus("nb1_poll", "nb1_polled")
PollRelatedRequestAnyStatus == PollRequestAnyStatus("nb3_poll", "nb3_polled")

\* every cell and loop statement but the status request of the poll loops
CellsButPollRequest ==
    \/ CopyRaw
    \/ SetIndexDropDuplicates
    \/ BuildAxis
    \/ JoinAxis
    \/ SampleHistory
    \/ PlotHistory
    \/ PlotYear2013
    \/ PlotYear2014
    \/ PlotYear2015
    \/ PlotYear2016
    \/ PlotYear2017
    \/ PlotYear2018
    \/ SliceFrom2017
    \/ FfillCell
    \/ BuildTargetSeries
    \/ SelectTargetColumns
    \/ WriteTargetFile
    \/ BuildValidationSeries
    \/ SelectValidationColumns
    \/ WriteValidationFile
    \/ CreateDatasetGroup
    \/ DescribeDatasetGroup
    \/ CreateDataset
    \/ DescribeDataset
    \/ AttachDataset
    \/ CreateRole
    \/ WaitForRole
    \/ CreateBucket
    \/ UploadTargetFile
    \/ CreateTargetImportJob
    \/ CreateTargetImportJobError
    \/ ReadTargetJobArn
    \/ PollTargetSleep
    \/ PollTargetBreak
    \/ DescribeTargetImportJob
    \/ StoreVariables
    \/ RestoreStore
    \/ BuildRelated
    \/ NullCheck
    \/ SampleRelated
    \/ SelectRelatedColumns
    \/ WriteRelatedFile
    \/ UploadRelatedFile
    \/ CreateRelatedDataset
    \/ DescribeRelatedDataset
    \/ CreateRelatedImportJob
    \/ CreateRelatedImportJobError
    \/ ReadRelatedJobArn
    \/ PollRelatedSleep
    \/ PollRelatedBreak
    \/ SampleRelatedAgain
    \/ DescribeRelatedImportJob
    \/ UpdateDatasetGroup

NextNoDeadline ==
    \/ CellsButPollRequest
    \/ PollTargetRequestAnyStatus
    \/ PollRelatedRequestAnyStatus

SpecNoDeadline == Init /\ [][NextNoDeadline]_vars

-----------------------------------------------------------------------------
(* The same run with the submission cell run a second time *)

\* the uuid4 of a second execution of notebook 3's cell: another name
RelatedJobNameRerun == "DSIMPORT_JOB_RELATEDPOC_uuid_2"

\* The cell of create_dataset_import_job executed once more at the end of
\* the notebook (where), with the same dataset and the same file. The service
\* knows a job by its dataset and its name (the ARN is
\* .../dataset-import-job/<dataset name>/<job name>): a request under the
\* name of a job it holds adds no job, a request under a new name adds one.
RerunSubmitImportJob(where, job) ==
    /\ pc = where
    /\ Len(SelectSeq(calls, LAMBDA c : c = "create_dataset_import_job")) = 1
    /\ Call("create_dataset_import_job")
    /\ importJobs' = importJobs \cup {job}
    /\ UNCHANGED << pc, dataVars, fileVars, datasets, dsGroupDatasets, pollVars >>

\* datasetImportJobName = 'DSIMPORT_JOB_TARGET_POC': the same name again
RerunCreateTargetImportJob == RerunSubmitImportJob("nb1_store", TargetJob)

\* datasetImportJobName = 'DSIMPORT_JOB_RELATEDPOC_' + str(uuid.uuid4())...:
\* a new name
RerunCreateRelatedImportJob ==
    RerunSubmitImportJob("nb3_done",
                         ImportJob(RelatedJobNameRerun, RelatedDataset, RelatedFileName))

NextRerun ==
    \/ Next
    \/ RerunCreateTargetImportJob
    \/ RerunCreateRelatedImportJob

SpecRerun == Init /\ [][NextRerun]_vars

-----------------------------------------------------------------------------
(* The same run on a raw file with empty cells *)

\* read_csv reads an empty cell as NaN: rows of the first and the last hour
\* of 2017 whose cells are a value or NaN, each column on its own
SparseRow == [date_time : {Y2017, Y2017End},
              temp : Values \cup {NaN},
              traffic_volume : Values \cup {NaN}]

InitSparse ==
    /\ original_data \in SeqsUpTo(SparseRow, MaxRows)
    /\ date_range_args = NotebookRange
    /\ InitRest

SpecSparse == InitSparse /\ [][Next]_vars

-----------------------------------------------------------------------------
(* The same run on a raw file that is already regular and complete *)

\* one row with a value in every column for each hour from 2017-01-01 00:00
\* to the end of the axis, in order: what a regularization hands out
RegularInputs ==
    { s \in [ 1..((AxisEnd - Y2017) \div Freq + 1) -> RawRow ] :
        \A i \in DOMAIN s : s[i].date_time = Y2017 + (i - 1) * Freq }

InitRegular ==
    /\ original_data \in RegularInputs
    /\ date_range_args = NotebookRange
    /\ InitRest

SpecRegular == InitRegular /\ [][Next]_vars

-----------------------------------------------------------------------------
(* The poll loops under fairness: the interpreter goes on executing a loop
   it is in, so each step of a loop that stays possible is taken: a status
   request returns, the sleep ends, the break leaves the loop. The service
   answers a terminal status at the latest to the MaxPolls-th request
   (PollRequest). The data are the four-row raw files. *)

LoopFairness ==
    /\ WF_vars(PollTargetRequest) /\ WF_vars(PollTargetSleep)
    /\ WF_vars(PollTargetBreak)
    /\ WF_vars(PollRelatedRequest) /\ WF_vars(PollRelatedSleep)
    /\ WF_vars(PollRelatedBreak)

SpecPollFair == InitRegular /\ [][Next]_vars /\ LoopFairness

-----------------------------------------------------------------------------
(* Properties *)

\* positions of the run around the poll loops
AtPoll == { "nb1_poll", "nb3_poll" }
Polled == { "nb1_polled", "nb3_polled" }
JustExited == { "nb1_evaluate", "nb3_sample_again" }
Exited == { "nb1_evaluate", "nb1_store", "nb3_restore",
            "nb3_sample_again", "nb3_sample_again_failed",
            "nb3_evaluate", "nb3_update_group", "nb3_done" }
Aborted == { "nb1_aborted", "nb3_aborted" }
Nb3AfterNullCheck == { "nb3_sample", "nb3_sample_failed",
                       "nb3_related_columns", "nb3_related_file", "nb3_upload",
                       "nb3_create_dataset", "nb3_describe_dataset",
                       "nb3_create_import_job", "nb3_aborted", "nb3_job_arn",
                       "nb3_poll", "nb3_polled",
                       "nb3_sample_again", "nb3_sample_again_failed",
                       "nb3_evaluate", "nb3_update_group", "nb3_done" }
InNotebook3 == pc \in Nb3AfterNullCheck \cup { "nb3_related", "nb3_null_check" }

\* the two statuses that end an import job: success and failure
TerminalStatuses == { "ACTIVE", "CREATE_FAILED" }

CountCalls(name) == Cardinality({ i \in 1..Len(calls) : calls[i] = name })

\* the rows of df are exactly one per instant start, start+Freq, ... end
IsRegular(df, start, end) ==
    /\ Len(df) = (end - start) \div Freq + 1
    /\ \A i \in 1..Len(df) : df[i].date_time = start + (i - 1) * Freq

\* no line of a written file has an empty value field
FileHasNoNull(f) == \A i \in 1..Len(f) : f[i][2] # ""

\* C1: every regularized frame holds exactly (end - start) / frequency + 1
\* rows, one per axis instant, strictly increasing by one step: the joined
\* history over the whole axis, the 2017 target series, the related series
\* from 2017-01-01 to the end of the axis.
C1_OneRowPerAxisInstant ==
    /\ full_historical_df # <<>> => IsRegular(full_historical_df, AxisStart, AxisEnd)
    /\ target_time_series_df # <<>> => IsRegular(target_time_series_df, Y2017, Y2017End)
    /\ related_time_series_df # <<>> => IsRegular(related_time_series_df, Y2017, AxisEnd)

\* the raw timestamps that occur on two rows with different values
ConflictingTimes ==
    { original_data[i].date_time : i \in { k \in 1..Len(original_data) :
          \E j \in 1..Len(original_data) :
              /\ original_data[j].date_time = original_data[k].date_time
              /\ ~SameColumns(original_data[j], original_data[k]) } }

\* C2: deduplication is keyed on the timestamp (item_id is constant) and is
\* first-wins: for a timestamp that two raw rows with different values share,
\* the joined output holds exactly one row and it has the values of the first
\* of the raw rows.
C2_FirstWinsPerTimestamp ==
    (original_data # <<>> /\ full_historical_df # <<>>) =>
        \A t \in ConflictingTimes :
            /\ Len(RowsAt(full_historical_df, t)) = 1
            /\ SameColumns(RowsAt(full_historical_df, t)[1], RowsAt(original_data, t)[1])

\* C3: the written target and validation files hold no empty value: when the
\* first hour of 2017 has a value (every gap lies inside the range, after a
\* known value), every line of both files has a traffic_volume.
C3_TargetFilesHaveNoNull ==
    (target_df # <<>> /\ target_df[1].traffic_volume # NaN) =>
        /\ TargetFileName \in DOMAIN disk => FileHasNoNull(disk[TargetFileName])
        /\ ValidationFileName \in DOMAIN disk => FileHasNoNull(disk[ValidationFileName])

\* C4: the written related file holds no empty covariate value, for every
\* input.
C4_RelatedFileHasNoNull ==
    RelatedFileName \in DOMAIN disk => FileHasNoNull(disk[RelatedFileName])

\* C5: when the null check of notebook 3 finds a row with a NaN after the
\* forward fill, the run fails there: it never stands at a later cell (column
\* selection, file write, upload, import).
C5_NullCheckStopsRun ==
    ~(pc \in Nb3AfterNullCheck /\ cell_out # <<>>)

TargetIncomplete ==
    \E i \in 1..Len(target_time_series_df) : target_time_series_df[i].traffic_volume = NaN

RelatedIncomplete ==
    RelatedFileName \in DOMAIN disk /\ ~FileHasNoNull(disk[RelatedFileName])

\* C6: once the prepared series is incomplete (a cell of it is NaN), the
\* session issues no request to Forecast, IAM or S3.
C6_NoCallWhenIncomplete ==
    (TargetIncomplete \/ RelatedIncomplete) => calls = <<>>

\* the seconds the session had slept when it entered its poll loop: the wait
\* of the role cell in notebook 1, none in notebook 3
SleptBeforeLoop == IF InNotebook3 THEN 0 ELSE RoleWait

\* C7: the poll loop alternates request and sleep(30): before each request it
\* has slept once per earlier answer, none of them terminal; it leaves at the
\* first terminal answer, at position n of the answers, having issued exactly
\* n status requests and slept exactly n - 1 times 30 seconds since it was
\* entered, and it holds that terminal status.
C7_RequestsAndSleeps ==
    LET n == Len(statusLog) IN
    /\ pc \in AtPoll =>
          /\ slept = SleptBeforeLoop + n * PollInterval
          /\ CountCalls("describe_dataset_import_job") = n
    /\ pc \in Polled =>
          /\ n >= 1
          /\ slept = SleptBeforeLoop + (n - 1) * PollInterval
          /\ CountCalls("describe_dataset_import_job") = n
    /\ pc \in Exited =>
          /\ n >= 1
          /\ statusLog[n] \in TerminalStatuses
          /\ \A i \in 1..(n - 1) : statusLog[i] \notin TerminalStatuses
          /\ slept = SleptBeforeLoop + (n - 1) * PollInterval
          /\ dataImportStatus = statusLog[n]
    /\ pc \in JustExited => CountCalls("describe_dataset_import_job") = n

\* a loop answered CREATE_PENDING, CREATE_IN_PROGRESS, CREATE_IN_PROGRESS,
\* ACTIVE has left after 4 requests and 3 sleeps
C7_Witness ==
    /\ pc = "nb3_evaluate"
    /\ statusLog = << "CREATE_PENDING", "CREATE_IN_PROGRESS", "CREATE_IN_PROGRESS", "ACTIVE" >>
    /\ CountCalls("describe_dataset_import_job") = 4
    /\ slept = 3 * PollInterval

\* C8: after each answer the loop leaves exactly when the status is ACTIVE or
\* the failure status (CREATE_FAILED in the service's words) and polls again
\* on every other status; so a loop that has left holds a terminal status and
\* was answered no terminal status before it.
C8_StopsOnTerminalOnly ==
    /\ [](pc \in Exited =>
            /\ dataImportStatus \in TerminalStatuses
            /\ \A i \in 1..(Len(statusLog) - 1) : statusLog[i] \notin TerminalStatuses)
    /\ [](pc \in AtPoll => \A i \in 1..Len(statusLog) : statusLog[i] \notin TerminalStatuses)
    /\ [][(pc \in Polled) =>
            (IF dataImportStatus \in TerminalStatuses
             THEN pc' \in JustExited
             ELSE pc' \in AtPoll)]_vars

\* a loop that polled on through non-terminal answers and left on the failure
\* status
C8_Witness ==
    /\ pc = "nb1_evaluate"
    /\ dataImportStatus = "CREATE_FAILED"
    /\ Len(statusLog) >= 3
    /\ statusLog[1] = "CREATE_PENDING"
    /\ statusLog[2] = "CREATE_IN_PROGRESS"

\* C9: when the import job ends in the failure status, the run does not go on
\* to the evaluation and dataset-group steps as after ACTIVE, and the session
\* issues no second create_dataset_import_job request.
C9_FailureStopsRun ==
    /\ dataImportStatus = "CREATE_FAILED" =>
          pc \notin { "nb1_store", "nb3_restore", "nb3_update_group", "nb3_done" }
    /\ CountCalls("create_dataset_import_job") <= 1

\* the names of the import jobs the service holds
JobNames == { j.name : j \in importJobs }

\* the session issued a create_dataset_import_job request and the service
\* holds no job for it: the call raised
CreateErrored ==
    /\ CountCalls("create_dataset_import_job") >= 1
    /\ (IF InNotebook3 THEN RelatedJobName ELSE TargetJobName) \notin JobNames

\* C10: when the create call errors the run stops there: the session has
\* issued exactly one create_dataset_import_job request, never issues another
\* and never issues a status request for it.
C10_CreateErrorFailsFast ==
    /\ [](CreateErrored =>
            /\ pc \in Aborted
            /\ CountCalls("create_dataset_import_job") = 1
            /\ CountCalls("describe_dataset_import_job") = 0
            /\ statusLog = <<>>
            /\ import_job_arn = Undefined)
    /\ [][(pc \in Aborted) => (calls' = calls)]_vars

\* the create call of notebook 3 has raised
C10_Witness ==
    /\ pc = "nb3_aborted"
    /\ CountCalls("create_dataset_import_job") = 1
    /\ RelatedJobName \notin JobNames

\* the loop was answered no terminal status so far
NoTerminalAnswer == \A i \in 1..Len(statusLog) : statusLog[i] \notin TerminalStatuses

\* C11: the poll loop has no attempt limit and no deadline: however many
\* requests it has issued and however long it has slept, at the head of the
\* loop the next request is what it does, and after a non-terminal answer it
\* sleeps and cannot leave; so against a service that keeps answering
\* non-terminal statuses it is still in the loop after any number of requests.
C11_NoAttemptLimit ==
    /\ (pc \in AtPoll /\ Len(statusLog) < MaxPolls) =>
          /\ ENABLED (PollTargetRequestAnyStatus \/ PollRelatedRequestAnyStatus)
          /\ ~ENABLED (PollTargetBreak \/ PollRelatedBreak)
    /\ (pc \in Polled /\ dataImportStatus \notin TerminalStatuses) =>
          /\ ENABLED (PollTargetSleep \/ PollRelatedSleep)
          /\ ~ENABLED (PollTargetBreak \/ PollRelatedBreak)

\* the loop has issued as many requests as the model watches, slept after
\* each, was answered no terminal status and is still in the loop
C11_Witness ==
    /\ pc \in AtPoll
    /\ Len(statusLog) = MaxPolls
    /\ NoTerminalAnswer
    /\ CountCalls("describe_dataset_import_job") = MaxPolls
    /\ slept = MaxPolls * PollInterval

\* C12: the join keeps exactly the axis timestamps: the joined history has
\* the axis instants and no other, so a raw timestamp off the axis is absent
\* from it, and an axis instant with no raw row is there as one all-NaN row;
\* the related frame of notebook 3 has exactly the axis instants from
\* 2017-01-01 on.
C12_JoinKeepsExactlyAxis ==
    /\ full_historical_df # <<>> => IndexOf(full_historical_df) = Range(full_df)
    /\ (full_historical_df # <<>> /\ ~InNotebook3) =>
          \A t \in Range(full_df) \ IndexOf(original_data) :
              RowsAt(full_historical_df, t) = << NaNRow(t) >>
    /\ related_time_series_df # <<>> =>
          IndexOf(related_time_series_df) = { t \in Range(full_df) : t >= Y2017 }

ValueColumns == { "temp", "traffic_volume" }

\* the rows above row i of df whose cell in column col is not NaN
KnownAbove(df, i, col) == { j \in 1..(i - 1) : df[j][col] # NaN }

Latest(S) == CHOOSE j \in S : \A k \in S : k <= j

\* row is row i of df forward-filled: in each column a cell that is not NaN
\* is kept, a NaN cell holds the cell of the nearest row above whose cell in
\* that column is not NaN (and stays NaN when there is no such row)
IsFilledRow(df, i, row) ==
    /\ row.date_time = df[i].date_time
    /\ \A col \in ValueColumns :
          IF df[i][col] # NaN THEN row[col] = df[i][col]
          ELSE IF KnownAbove(df, i, col) = {} THEN row[col] = NaN
          ELSE row[col] = df[Latest(KnownAbove(df, i, col))][col]

\* the frame notebook 3 fills: the axis joined with the stored target_df
RelatedBeforeFill == JoinOuter(full_df, target_df)

\* C13: forward-fill is per column and uses only earlier rows: the frame
\* notebook 1's ffill() returns is target_df with every row filled that way,
\* and the related frame of notebook 3 is the rows from 2017-01-01 on of the
\* joined frame with every row filled that way.
C13_FfillPerColumn ==
    /\ pc = "nb1_target_series" =>
          /\ Len(cell_out) = Len(target_df)
          /\ \A i \in 1..Len(target_df) : IsFilledRow(target_df, i, cell_out[i])
    /\ pc = "nb3_null_check" =>
          LET before == RelatedBeforeFill
              off == Len(before) - Len(related_time_series_df)
          IN  /\ off = Cardinality({ i \in 1..Len(before) : before[i].date_time < Y2017 })
              /\ \A k \in 1..Len(related_time_series_df) :
                     IsFilledRow(before, off + k, related_time_series_df[k])

\* notebook 3 has filled an all-NaN row whose temp comes from two rows above
\* (the row between has no temp) and whose traffic_volume comes from the row
\* right above, the two values being different
C13_Witness ==
    /\ pc = "nb3_null_check"
    /\ \E k \in 3..Len(related_time_series_df) :
          LET before == RelatedBeforeFill
              i == Len(before) - Len(related_time_series_df) + k
          IN  /\ before[i].temp = NaN /\ before[i].traffic_volume = NaN
              /\ before[i - 1].temp = NaN /\ before[i - 1].traffic_volume # NaN
              /\ before[i - 2].temp # NaN
              /\ related_time_series_df[k].temp = before[i - 2].temp
              /\ related_time_series_df[k].traffic_volume = before[i - 1].traffic_volume
              /\ before[i - 2].temp # before[i - 1].traffic_volume

\* the cell that builds the axis has run
AxisBuilt == pc \notin { "nb1_copy", "nb1_copy_failed", "nb1_dedup", "nb1_axis" }

\* the instants start + k * freq, k = 0, 1, ..., that are <= end
AxisInstants(start, end, freq) ==
    { t \in start..end : (HoursFromStart(t) - HoursFromStart(start)) % freq = 0 }

\* C14: the axis holds exactly the instants start + k * frequency <= end, in
\* increasing order: it begins at start and ends at end when the frequency
\* divides end - start; and the axis of notebook 1 reaches the last raw
\* timestamp of the declared end date (2018-09-30 23:00).
C14_AxisReachesLastRawHour ==
    (AxisBuilt /\ date_range_args.freq > 0 /\ date_range_args.start <= date_range_args.end) =>
        LET a == date_range_args IN
        /\ Range(full_df) = AxisInstants(a.start, a.end, a.freq)
        /\ \A i \in 1..(Len(full_df) - 1) : full_df[i + 1] > full_df[i]
        /\ Len(full_df) <= AxisLength(a.start, a.end, a.freq)
        /\ full_df[1] = a.start
        /\ (HoursFromStart(a.end) - HoursFromStart(a.start)) % a.freq = 0 =>
               full_df[Len(full_df)] = a.end
        /\ a = NotebookRange => full_df[Len(full_df)] = LastRawHour

\* no cell of df is NaN
IsComplete(df) == NullRows(df) = <<>>

\* C16: regularization is idempotent: for a raw series that is already
\* regular and complete over 2017-01-01 .. end of the axis, the frame after
\* dedup, join, slice and forward-fill is that series: same rows, same
\* order, same values.
C16_Idempotent ==
    (/\ pc = "nb1_target_series"
     /\ IsRegular(original_data, Y2017, AxisEnd)
     /\ IsComplete(original_data)) => cell_out = original_data

\* an hourly raw series (one row per hour at most, in time order) that begins
\* at 2017-01-01 00:00 and ends at 2018-09-30 23:00; the hours it does not
\* hold are the missing hours inside the range
IsScenario(raw) ==
    /\ raw # <<>>
    /\ raw[1].date_time = Y2017
    /\ raw[Len(raw)].date_time = LastRawHour
    /\ \A i \in 1..(Len(raw) - 1) : raw[i].date_time < raw[i + 1].date_time

\* C17: for an hourly raw series from 2017-01-01 00:00 to 2018-09-30 23:00
\* with missing hours inside the range, the regularized frame has one row
\* for every hour of the range (the scenario's row count), no NaN, and each
\* missing hour carries the values of the hour before it.
C17_ScenarioOutput ==
    (pc = "nb1_target_series" /\ IsScenario(original_data)) =>
        /\ IsRegular(cell_out, Y2017, LastRawHour)
        /\ IsComplete(cell_out)
        /\ \A i \in 2..Len(cell_out) :
               cell_out[i].date_time \notin IndexOf(original_data) =>
                   SameColumns(cell_out[i], cell_out[i - 1])

\* the dtype of a column of the frames written (the index is the datetime
\* axis; the numeric columns are float64 and the other two object in the
\* frame summary of notebook 3)
Dtype(col) ==
    CASE col = "date_time" -> "datetime64"
      [] col \in { "weather_description", "item_ID" } -> "object"
      [] OTHER -> "float64"

\* the attribute type that reads a column of that dtype
AttributeTypeOf(dtype) ==
    CASE dtype = "datetime64" -> "timestamp"
      [] dtype = "float64" -> "float"
      [] dtype = "object" -> "string"

\* file is df written without a header, its fields in the order index,
\* columns (item_ID last), and sch describes it position by position
SchemaMatchesFile(file, df, columns, sch) ==
    LET fileColumns == << "date_time" >> \o columns IN
    /\ Len(file) = Len(df)
    /\ \A i \in 1..Len(file) :
          /\ Len(file[i]) = Len(sch)
          /\ file[i][1] = df[i].date_time
          /\ file[i][Len(file[i])] = ItemId
    /\ Len(fileColumns) = Len(sch)
    /\ fileColumns[Len(fileColumns)] = "item_ID"
    /\ \A k \in 1..Len(sch) : sch[k].AttributeType = AttributeTypeOf(Dtype(fileColumns[k]))

AttributeNames(sch) == [ k \in 1..Len(sch) |-> sch[k].AttributeName ]
AttributeTypes(sch) == [ k \in 1..Len(sch) |-> sch[k].AttributeType ]

\* C18: each uploaded file matches the schema of its dataset by position: no
\* header line, the timestamp index first, the value columns, item_ID last,
\* as many attributes as columns and the i-th attribute of the type of the
\* i-th column; the target schema is timestamp, float, string and the
\* related one timestamp, temperature, rain_1h, snow_1h, clouds_all,
\* weather, item_id.
C18_SchemaMatchesFile ==
    /\ (TargetFileName \in DOMAIN bucket /\ TargetDataset \in DOMAIN datasets) =>
          /\ SchemaMatchesFile(bucket[TargetFileName], target_time_series_df,
                               TargetColumnNames, datasets[TargetDataset])
          /\ AttributeTypes(datasets[TargetDataset]) = << "timestamp", "float", "string" >>
    /\ (RelatedFileName \in DOMAIN bucket /\ RelatedDataset \in DOMAIN datasets) =>
          /\ SchemaMatchesFile(bucket[RelatedFileName], related_time_series_df,
                               RelatedColumnNames, datasets[RelatedDataset])
          /\ AttributeNames(datasets[RelatedDataset]) =
                 << "timestamp", "temperature", "rain_1h", "snow_1h", "clouds_all",
                    "weather", "item_id" >>

\* both datasets exist with their files uploaded, each file with two lines
\* or more
C18_Witness ==
    /\ TargetFileName \in DOMAIN bucket /\ TargetDataset \in DOMAIN datasets
    /\ RelatedFileName \in DOMAIN bucket /\ RelatedDataset \in DOMAIN datasets
    /\ Len(bucket[TargetFileName]) >= 2
    /\ Len(bucket[RelatedFileName]) >= 2
    /\ Len(bucket[RelatedFileName][1]) = 7

\* the hour of the day of an instant of the model's calendar: 23 for the last
\* hour of 2017 and for the last raw hour, 0 for the others (midnights)
HourOfDay(t) == IF t \in { Y2017End, LastRawHour } THEN 23 ELSE 0

\* the hours a timestamp format can tell apart: HH is the hour of the day,
\* hh the hour of the 12-hour clock
ClockHours(format) ==
    CASE format = "yyyy-MM-dd HH:mm:ss" -> 0..23
      [] format = "yyyy-MM-dd hh:mm:ss" -> 1..12

\* C19: every import job declares the timestamp format yyyy-MM-dd HH:mm:ss,
\* and that format covers the hour of every timestamp of the job's file
\* (the files hold the hours 00 to 23 of the day).
C19_TimestampFormat24h ==
    \A j \in importJobs :
        /\ j.format = "yyyy-MM-dd HH:mm:ss"
        /\ \A i \in 1..Len(bucket[j.path]) :
               HourOfDay(bucket[j.path][i][1]) \in ClockHours(j.format)

\* the import jobs the service holds for a dataset and a file
JobsOf(dataset, path) == { j \in importJobs : j.dataset = dataset /\ j.path = path }

\* C20: submission is not idempotent: once the session has run the
\* submission cell twice with the same file and the same dataset, the
\* service holds two distinct import jobs for them, for the target import
\* (notebook 1) and for the related import (notebook 3).
C20_SecondSubmissionAddsJob ==
    CountCalls("create_dataset_import_job") = 2 =>
        IF InNotebook3
        THEN Cardinality(JobsOf(RelatedDataset, RelatedFileName)) = 2
        ELSE Cardinality(JobsOf(TargetDataset, TargetFileName)) = 2

\* the field statistics describe_dataset_import_job returns for a job, one
\* entry per attribute of the dataset's schema: CountNull counts the empty
\* fields of the ingested file, CountNan the fields holding the text NaN
\* (the first field of a line is the index, a timestamp on every line)
CountNull(file, k) ==
    IF k = 1 THEN 0 ELSE Cardinality({ i \in 1..Len(file) : file[i][k] = "" })
CountNan(file, k) ==
    IF k = 1 THEN 0 ELSE Cardinality({ i \in 1..Len(file) : file[i][k] = "NaN" })
FieldStatistics(job) ==
    [ k \in 1..Len(datasets[job.dataset]) |->
        [ Count |-> Len(bucket[job.path]),
          CountNull |-> CountNull(bucket[job.path], k),
          CountNan |-> CountNan(bucket[job.path], k) ] ]

\* the acceptance gate: the job is ACTIVE and no column has a null or a NaN
PassesGate(job) ==
    /\ dataImportStatus = "ACTIVE"
    /\ \A k \in DOMAIN FieldStatistics(job) :
           /\ FieldStatistics(job)[k].CountNull = 0
           /\ FieldStatistics(job)[k].CountNan = 0

\* C21: an import the run has moved on from passed the acceptance gate: once
\* notebook 1 has stored its results the target import job is ACTIVE and its
\* field statistics show no null and no NaN in any column, and once
\* notebook 3 has updated the dataset group the same holds of the related
\* import job.
C21_AcceptedOnlyThroughGate ==
    /\ pc = "nb3_restore" => PassesGate(TargetJob)
    /\ pc = "nb3_done" => PassesGate(RelatedJob)

\* the stage of a control-plane call in the order: dataset group, dataset
\* (and its attachment), role, object storage, import job, status
Stage(call) ==
    CASE call \in {"create_dataset_group", "describe_dataset_group"} -> 1
      [] call \in {"create_dataset", "describe_dataset", "update_dataset_group"} -> 2
      [] call \in {"create_role", "attach_role_policy"} -> 3
      [] call \in {"get_caller_identity", "create_bucket", "upload_file"} -> 4
      [] call = "create_dataset_import_job" -> 5
      [] call = "describe_dataset_import_job" -> 6

\* the calls of the session so far never step back to an earlier stage
InStageOrder ==
    \A i, j \in 1..Len(calls) : i < j => Stage(calls[i]) <= Stage(calls[j])

\* every call named later in the session's calls has a call named first
\* before it
Precedes(first, later) ==
    \A j \in 1..Len(calls) :
        calls[j] = later => \E i \in 1..(j - 1) : calls[i] = first

\* C22: in every run, of either notebook, the calls follow the one order
\* dataset group, dataset and its attachment, role, upload, import job,
\* status requests, field statistics: the calls never step back to an
\* earlier stage, a dataset is attached only after it was created, an import
\* job is created only after the upload, a status request is made only after
\* the create-import-job request, and the field statistics are read only
\* after a status request returned a terminal status.
C22_OneOrderInEveryRun ==
    /\ InStageOrder
    /\ Precedes("create_dataset", "update_dataset_group")
    /\ Precedes("upload_file", "create_dataset_import_job")
    /\ Precedes("create_dataset_import_job", "describe_dataset_import_job")
    /\ pc \in Exited =>
           /\ statusLog # <<>>
           /\ statusLog[Len(statusLog)] \in TerminalStatuses

\* a file on disk stays as it was written, and so does the frame it was
\* written from
WrittenStays(name, df, dfNext) ==
    name \in DOMAIN disk =>
        /\ dfNext = df
        /\ name \in DOMAIN disk'
        /\ disk'[name] = disk[name]

\* C23: regularization changes neither the raw frame nor the joined history:
\* no cell of a session changes original_data, no cell but the join that
\* builds it changes full_historical_df, no cell of notebook 3 changes the
\* restored target_df, and once a series is written to its file no later
\* cell changes the series or the file.
C23_RegularizationIsPure ==
    [][ /\ (pc # "nb3_restore") => (original_data' = original_data)
        /\ (pc # "nb1_join") => (full_historical_df' = full_historical_df)
        /\ InNotebook3 => (target_df' = target_df)
        /\ WrittenStays(TargetFileName, target_time_series_df,
                        target_time_series_df')
        /\ WrittenStays(ValidationFileName, validation_time_series_df,
                        validation_time_series_df')
        /\ WrittenStays(RelatedFileName, related_time_series_df,
                        related_time_series_df') ]_vars

\* the three files are written, the dedup dropped a row of the copy, and the
\* raw frame still holds it
C23_Witness ==
    /\ pc = "nb1_create_dataset_group"
    /\ Len(DropDuplicates(original_data)) < Len(original_data)
    /\ full_historical_df = JoinOuter(full_df, DropDuplicates(original_data))
    /\ disk[TargetFileName] = TargetCsv(target_time_series_df)
    /\ disk[ValidationFileName] = TargetCsv(validation_time_series_df)

\* the first terminal status among the answers of the loop, 0 when none
FirstTerminal ==
    IF \E i \in 1..Len(statusLog) : statusLog[i] \in TerminalStatuses
    THEN CHOOSE i \in 1..Len(statusLog) :
             /\ statusLog[i] \in TerminalStatuses
             /\ \A k \in 1..(i - 1) : statusLog[k] \notin TerminalStatuses
    ELSE 0

\* C24: when the import job reaches a terminal status and every status
\* request returns, each poll loop is left: a run inside the loop of
\* notebook 1 reaches the cell after it, and so does a run inside the loop of
\* notebook 3; and the loop is left at the first request that was answered a
\* terminal status, which is the last request the loop made.
C24_PollLoopExits ==
    /\ (pc \in { "nb1_poll", "nb1_polled" }) ~> (pc = "nb1_evaluate")
    /\ (pc \in { "nb3_poll", "nb3_polled" }) ~> (pc = "nb3_sample_again")
    /\ [](pc \in JustExited =>
            /\ FirstTerminal = Len(statusLog)
            /\ FirstTerminal >= 1)

\* the loop of notebook 3 is left at its third request, answered
\* CREATE_FAILED after two answers that kept it polling
C24_Witness ==
    /\ pc = "nb3_evaluate"
    /\ statusLog = << "CREATE_IN_PROGRESS", "CREATE_IN_PROGRESS", "CREATE_FAILED" >>
    /\ FirstTerminal = 3
    /\ slept = 2 * PollInterval

\* the job the session submitted: the target job in notebook 1, the related
\* job in notebook 3
SubmittedJob == IF InNotebook3 THEN RelatedJob ELSE TargetJob

\* C25: a step of a poll loop leaves the job identifier, the import jobs, the
\* datasets and their group, the uploaded and the local files and every frame
\* as they are; the identifier is the one of the job the session submitted,
\* which the service holds; the request step makes exactly one call, a
\* describe_dataset_import_job, and sets the last observed status, and the
\* step after it (sleep or break) makes no call and keeps the status.
C25_PollChangesStatusOnly ==
    [][ (pc \in AtPoll \cup Polled) =>
          ( /\ import_job_arn = SubmittedJob.name
            /\ SubmittedJob \in importJobs
            /\ UNCHANGED << import_job_arn, importJobs, datasets,
                            dsGroupDatasets, bucket, disk, dataVars >>
            /\ IF pc \in AtPoll
               THEN /\ calls' = Append(calls, "describe_dataset_import_job")
                    /\ statusLog' = Append(statusLog, dataImportStatus')
               ELSE /\ calls' = calls
                    /\ statusLog' = statusLog
                    /\ dataImportStatus' = dataImportStatus ) ]_vars

\* the loop of notebook 3 after its second request: two calls made, the job
\* identifier and the two import jobs as they were at submission
C25_Witness ==
    /\ pc = "nb3_polled"
    /\ Len(statusLog) = 2
    /\ CountCalls("describe_dataset_import_job") = 2
    /\ import_job_arn = RelatedJobName
    /\ importJobs = { TargetJob, RelatedJob }
    /\ RelatedFileName \in DOMAIN bucket

\* the timestamps of the lines of a file
TimestampsOf(file) == { file[i][1] : i \in 1..Len(file) }

\* C26: once both files are written, the training target file and the
\* validation file split the prepared series (target_df, from 2017-01-01 on)
\* by time: the training lines lie within 2017-01-01..2017-12-31, the
\* validation lines on or after 2018-01-01, no timestamp is in both files,
\* and the lines of the prepared series are the training lines followed by
\* the validation lines, each row in exactly one file.
C26_FilesPartitionByTime ==
    ValidationFileName \in DOMAIN disk =>
        LET training == disk[TargetFileName]
            validation == disk[ValidationFileName]
        IN  /\ TimestampsOf(training) \subseteq Y2017..Y2017End
            /\ \A t \in TimestampsOf(validation) : t >= Y2018
            /\ TimestampsOf(training) \cap TimestampsOf(validation) = {}
            /\ training \o validation = TargetCsv(TargetColumns(target_df))
            /\ \A i \in 1..Len(target_df) : target_df[i].date_time >= Y2017

\* both files are written and the raw file had a row at the last hour of
\* 2017 and a row at the first hour of 2018, each kept by the dedup
C26_Witness ==
    /\ pc = "nb1_create_dataset_group"
    /\ \E i \in 1..Len(disk[TargetFileName]) :
           /\ disk[TargetFileName][i][1] = Y2017End
           /\ disk[TargetFileName][i][2] # ""
    /\ \E i \in 1..Len(disk[ValidationFileName]) :
           /\ disk[ValidationFileName][i][1] = Y2018
           /\ disk[ValidationFileName][i][2] # ""

\* the (timestamp, item_id) pairs of the lines of a file: the first and the
\* last field of a line
KeysOf(file) == { << file[i][1], file[i][Len(file[i])] >> : i \in 1..Len(file) }

\* C27: once the related file is written, every (timestamp, item_id) of the
\* target file is in the related file, and the related file has lines later
\* than every line of the target file, which is not empty.
C27_RelatedCoversTarget ==
    RelatedFileName \in DOMAIN disk =>
        LET target == disk[TargetFileName]
            related == disk[RelatedFileName]
        IN  /\ target # <<>>
            /\ KeysOf(target) \subseteq KeysOf(related)
            /\ \E k \in KeysOf(related) : \A l \in KeysOf(target) : k[1] > l[1]

\* the related file is written, the target file holds a timestamp twice
\* (two raw rows the dedup kept), and the related file reaches the end of the
\* axis
C27_Witness ==
    /\ pc = "nb3_upload"
    /\ Len(disk[TargetFileName]) = 3
    /\ Cardinality(KeysOf(disk[TargetFileName])) = 2
    /\ << AxisEnd, ItemId >> \in KeysOf(disk[RelatedFileName])

\* C28: the dedup drops no timestamp: once the dedup cell has run, every
\* timestamp of a raw row is the timestamp of a row of the deduplicated
\* frame, whatever the raw file (rows at different timestamps with the same
\* values in all columns included).
C28_DedupCreatesNoGap ==
    pc = "nb1_axis" => IndexOf(original_data) \subseteq IndexOf(target_df)

\* C29: the datasets attached to the group are datasets the service holds;
\* the target dataset, once attached, stays attached through every later
\* cell of both notebooks; after the attachment in notebook 1 the group
\* holds the target dataset alone, after the update in notebook 3 exactly
\* the target and the related dataset; and the related dataset is attached
\* only at the end of notebook 3, after the poll loop of its import job was
\* left on a terminal status.
C29_GroupKeepsTargetDataset ==
    /\ [][(TargetDataset \in dsGroupDatasets) =>
             (TargetDataset \in dsGroupDatasets')]_vars
    /\ [](dsGroupDatasets \subseteq DOMAIN datasets)
    /\ [](pc = "nb1_create_role" => dsGroupDatasets = {TargetDataset})
    /\ [](pc = "nb3_done" => dsGroupDatasets = {TargetDataset, RelatedDataset})
    /\ [](RelatedDataset \in dsGroupDatasets =>
             /\ pc = "nb3_done"
             /\ RelatedJob \in importJobs
             /\ statusLog # <<>>
             /\ statusLog[Len(statusLog)] \in TerminalStatuses)

\* notebook 3 has updated the group after an import that ended ACTIVE at
\* its second status request
C29_Witness ==
    /\ pc = "nb3_done"
    /\ dsGroupDatasets = {TargetDataset, RelatedDataset}
    /\ statusLog = << "CREATE_IN_PROGRESS", "ACTIVE" >>
    /\ calls[Len(calls)] = "update_dataset_group"

====
